---------------------------- MODULE Spec2Model ----------------------------
(***************************************************************************)
(* A model of the social-agents command line tools: the entry points       *)
(* twitter.ts and social.ts, SocialSDKExecutor (social-sdk-executor.ts),   *)
(* the shared logger (logger.ts) and the environment loader               *)
(* (env-loader.ts).                                                        *)
(*                                                                         *)
(* Strings are sequences of one-character strings, so that the regular    *)
(* expression of expandEnvironmentVariables and JSON.parse work on the    *)
(* text itself.  Command line arguments and prompts are kept as whole     *)
(* words.                                                                  *)
(***************************************************************************)
EXTENDS Integers, Sequences, FiniteSets, TLC

(***************************************************************************)
(* Bounds of the model.                                                    *)
(***************************************************************************)
MaxSegs == 3
MaxArgs == 3
MaxCliEvents == 1
MaxEvents == 4
MaxConcEvents == 2
MaxRuns == 2
MaxTextEvents == 3
MaxSocialArgs == 4
MaxScenarios == 2

(***************************************************************************)
(* Generic helpers.                                                        *)
(***************************************************************************)
RECURSIVE Flatten(_)
Flatten(ss) == IF ss = << >> THEN << >> ELSE Head(ss) \o Flatten(Tail(ss))

SeqsUpTo(S, n) == UNION { [1..k -> S] : k \in 0..n }

Range(s) == { s[k] : k \in DOMAIN s }

RECURSIVE SortedSeq(_)
SortedSeq(S) ==
    IF S = {} THEN << >>
    ELSE LET m == CHOOSE x \in S : \A y \in S : x <= y
         IN  <<m>> \o SortedSeq(S \ {m})

(***************************************************************************)
(* env-loader.ts: expandEnvironmentVariables.                              *)
(*                                                                         *)
(* An environment object is a function from names (strings) to values      *)
(* (strings).  It is an ordinary JavaScript object, so a property that it  *)
(* does not own is looked up on Object.prototype; the name "c" stands for  *)
(* "constructor", whose value is a function that String.replace turns     *)
(* into its source text, abbreviated here.                                 *)
(***************************************************************************)
FunctionText == <<"f", "(", ")">>

ObjectPrototype == [n \in {<<"c">>} |-> FunctionText]

\* env[varName] (env-loader.ts line 79)
\* The result is defined (with the value val) or undefined.
Lookup(env, varName) ==
    IF varName \in DOMAIN env THEN [def |-> TRUE, val |-> env[varName]]
    ELSE IF varName \in DOMAIN ObjectPrototype
    THEN [def |-> TRUE, val |-> ObjectPrototype[varName]]
    ELSE [def |-> FALSE, val |-> << >>]

\* First index j >= i with s[j] = "}", or 0 when there is none.
RECURSIVE NextClose(_, _)
NextClose(s, i) ==
    IF i > Len(s) THEN 0
    ELSE IF s[i] = "}" THEN i
    ELSE NextClose(s, i + 1)

\* The regular expression \$\{([^}]+)\} matches at position i.
MatchAt(s, i) ==
    /\ i + 3 <= Len(s)
    /\ s[i] = "$"
    /\ s[i + 1] = "{"
    /\ NextClose(s, i + 2) > i + 2

MatchEnd(s, i) == NextClose(s, i + 2)

MatchName(s, i) == SubSeq(s, i + 2, MatchEnd(s, i) - 1)

\* A variant of the callback that tests the value for falsiness (!value)
\* instead of comparing it with undefined: an empty value warns too.
ReplacementFalsy(env, varName) ==
    LET value == Lookup(env, varName)
    IN  IF ~value.def \/ value.val = << >>
        THEN [name |-> varName, text |-> << >>, warned |-> TRUE]
        ELSE [name |-> varName, text |-> value.val, warned |-> FALSE]

\* The callback of template.replace for one match: what it returns, and
\* whether it warns.
Replacement(env, varName) ==
    LET value == Lookup(env, varName)
    IN  IF ~value.def
        THEN [name |-> varName, text |-> << >>, warned |-> TRUE]
        ELSE [name |-> varName, text |-> value.val, warned |-> FALSE]

\* template.replace(/.../g, callback) scanning from position i: the text
\* produced and the callback's results, in order.
RECURSIVE ReplaceFrom(_, _, _)
ReplaceFrom(s, env, i) ==
    IF i > Len(s) THEN [text |-> << >>, subs |-> << >>]
    ELSE IF MatchAt(s, i)
    THEN LET r    == Replacement(env, MatchName(s, i))
             rest == ReplaceFrom(s, env, MatchEnd(s, i) + 1)
         IN  [text |-> r.text \o rest.text, subs |-> <<r>> \o rest.subs]
    ELSE LET rest == ReplaceFrom(s, env, i + 1)
         IN  [text |-> <<s[i]>> \o rest.text, subs |-> rest.subs]

expandEnvironmentVariables(template, env) ==
    LET r == ReplaceFrom(template, env, 1)
    IN  [text  |-> r.text,
         subs  |-> r.subs,
         warns |-> SelectSeq(r.subs, LAMBDA x : x.warned)]

NoExpansion == [text |-> << >>, subs |-> << >>, warns |-> << >>]

(***************************************************************************)
(* env-loader.ts: loadEnvironment.                                         *)
(*                                                                         *)
(* The names "N" and "L" stand for NODE_ENV and RUBE_LOG_LEVEL, the two   *)
(* variables that have a default; the other two named keys                 *)
(* (RUBE_API_TOKEN, COMPOSIO_API_KEY) are copies of process.env and add    *)
(* nothing to the spread.                                                  *)
(***************************************************************************)
NODE_ENV == <<"N">>
RUBE_LOG_LEVEL == <<"L">>

DefaultEnv == (NODE_ENV :> <<"d">>) @@ (RUBE_LOG_LEVEL :> <<"i">>)

\* A variant that loads the file without override: the variables that the
\* process already has keep their values.
DotenvConfigNoOverride(penv, file) == penv @@ file

\* A variant that appends the file's value to the value that the process
\* already has for the variable.
DotenvConfigAppends(penv, file) ==
    [n \in DOMAIN file \cup DOMAIN penv |->
       IF n \in DOMAIN file /\ n \in DOMAIN penv THEN penv[n] \o file[n]
       ELSE IF n \in DOMAIN file THEN file[n] ELSE penv[n]]

\* dotenv.config({ path, override: true }): every variable of the file is
\* written to process.env.
DotenvConfig(penv, file) == file @@ penv

\* { RUBE_LOG_LEVEL: process.env.RUBE_LOG_LEVEL || 'info',
\*   NODE_ENV: process.env.NODE_ENV || 'development', ...process.env }
EnvironmentConfig(penv) == penv @@ DefaultEnv

\* loadEnvironment(): the new process.env, the object returned, and whether
\* the "Loading environment from .env.local" line is printed.
loadEnvironment(penv, envFile) ==
    LET penv2 == IF envFile.exists THEN DotenvConfig(penv, envFile.vars) ELSE penv
    IN  [processEnv |-> penv2,
         env        |-> EnvironmentConfig(penv2),
         loaded     |-> envFile.exists]

(***************************************************************************)
(* JSON.parse, for texts made of objects and strings.                      *)
(***************************************************************************)
Q == "\""
BS == "\\"

JStr(cs) == [kind |-> "str", chars |-> cs, members |-> << >>]
JObj(ms) == [kind |-> "obj", chars |-> << >>, members |-> ms]

ParseFail == [ok |-> FALSE, val |-> JStr(<< >>), next |-> 0]

\* The rest of a string literal whose opening quote has been read.
RECURSIVE ScanString(_, _, _)
ScanString(s, j, acc) ==
    IF j > Len(s) THEN ParseFail
    ELSE IF s[j] = Q THEN [ok |-> TRUE, val |-> JStr(acc), next |-> j + 1]
    ELSE IF s[j] = BS
    THEN IF j + 1 <= Len(s) /\ s[j + 1] \in {Q, BS}
         THEN ScanString(s, j + 2, Append(acc, s[j + 1]))
         ELSE ParseFail
    ELSE ScanString(s, j + 1, Append(acc, s[j]))

RECURSIVE ParseValue(_, _)
RECURSIVE ParseMembers(_, _, _)

ParseValue(s, i) ==
    IF i > Len(s) THEN ParseFail
    ELSE IF s[i] = Q THEN ScanString(s, i + 1, << >>)
    ELSE IF s[i] = "{"
    THEN IF i + 1 <= Len(s) /\ s[i + 1] = "}"
         THEN [ok |-> TRUE, val |-> JObj(<< >>), next |-> i + 2]
         ELSE ParseMembers(s, i + 1, << >>)
    ELSE ParseFail

ParseMembers(s, j, acc) ==
    IF j > Len(s) \/ s[j] # Q THEN ParseFail
    ELSE LET k == ScanString(s, j + 1, << >>)
         IN  IF ~k.ok \/ k.next > Len(s) \/ s[k.next] # ":" THEN ParseFail
             ELSE LET v == ParseValue(s, k.next + 1)
                  IN  IF ~v.ok \/ v.next > Len(s) THEN ParseFail
                      ELSE LET acc2 == Append(acc, [key |-> k.val.chars, val |-> v.val])
                           IN  IF s[v.next] = "," THEN ParseMembers(s, v.next + 1, acc2)
                               ELSE IF s[v.next] = "}"
                               THEN [ok |-> TRUE, val |-> JObj(acc2), next |-> v.next + 1]
                               ELSE ParseFail

\* JSON.parse(text): ok is FALSE when it throws a SyntaxError.
JSONparse(s) ==
    LET r == ParseValue(s, 1)
    IN  [ok |-> r.ok /\ r.next = Len(s) + 1, val |-> r.val]

\* value[key] of a parsed value (the last member of that name wins).
GetProp(v, key) ==
    LET hits == { k \in DOMAIN v.members : v.members[k].key = key }
    IN  IF v.kind = "obj" /\ hits # {}
        THEN [def |-> TRUE,
              val |-> v.members[CHOOSE k \in hits : \A h \in hits : h <= k].val]
        ELSE [def |-> FALSE, val |-> JStr(<< >>)]

\* if (value): objects and non-empty strings are truthy.
Truthy(p) == p.def /\ (p.val.kind = "obj" \/ p.val.chars # << >>)

\* Object.keys(value)
ObjectKeys(v) ==
    IF v.kind = "obj" THEN { v.members[k].key : k \in DOMAIN v.members }
    ELSE { <<"index", k>> : k \in DOMAIN v.chars }

(***************************************************************************)
(* Output.  One entry per line or group of lines written to the console:   *)
(* its kind and its variable part.                                         *)
(***************************************************************************)
Line(k, d) == [k |-> k, d |-> d]

Kinds(out) == { out[j].k : j \in DOMAIN out }

\* logger.debug (logger.ts): written only when the logger's own verbose
\* option is set.
LoggerDebug(lv, k, d) == IF lv THEN <<Line(k, d)>> ELSE << >>

\* logger.usage (logger.ts): returns at once unless the logger's option is set.
LoggerUsage(lv) == IF lv THEN <<Line("usage", << >>)>> ELSE << >>

(***************************************************************************)
(* Words: platform identifiers and command line arguments.                 *)
(***************************************************************************)
toLowerCase(w) == IF w = "Twitter" THEN "twitter" ELSE w

toUpperCase(w) ==
    CASE w \in {"twitter", "Twitter"} -> "TWITTER"
      [] w = "myspace" -> "MYSPACE"
      [] w = "reddit" -> "REDDIT"
      [] w = "hello" -> "HELLO"
      [] w = "s1" -> "S1"
      [] w = "s2" -> "S2"
      [] OTHER -> w

\* arg.startsWith('--')
StartsWithDashes(w) ==
    w \in {"--resume", "--verbose", "--dry-run", "--preview", "--help"}

\* A variant that tests the text without trimming it (!prompt).
TrimEmptyNoTrim(words) == words = << >> \/ words = <<"">>

\* text.trim() is empty, for a text given as words joined by single spaces.
TrimEmpty(words) == \A k \in DOMAIN words : words[k] \in {"", " "}

includes(args, w) == \E k \in DOMAIN args : args[k] = w

\* args.indexOf(w), counted from 1; 0 stands for -1.
indexOf(args, w) ==
    IF includes(args, w)
    THEN CHOOSE k \in DOMAIN args : args[k] = w /\ \A j \in 1..(k - 1) : args[j] # w
    ELSE 0

\* args.filter(...): the arguments at the positions kept, in order.
RECURSIVE FilterIdx(_, _, _)
FilterIdx(args, kept, k) ==
    IF k > Len(args) THEN << >>
    ELSE (IF k \in kept THEN <<args[k]>> ELSE << >>) \o FilterIdx(args, kept, k + 1)

NoResume == [def |-> FALSE, val |-> ""]

\* if (options.resume): a non-empty string.
ResumeGiven(options) == options.resume.def /\ options.resume.val # ""

(***************************************************************************)
(* social-sdk-executor.ts                                                  *)
(***************************************************************************)
supportedPlatforms == {"twitter", "reddit", "linkedin", "youtube"}

\* A variant that accepts every platform for which a template may exist.
validatePlatformAny(platform) == TRUE

\* validatePlatform: TRUE when the platform is accepted, else it writes its
\* errors and exits the process with code 1.
validatePlatform(platform) == toLowerCase(platform) \in supportedPlatforms

validatePlatformErrors(platform) ==
    << Line("error:unsupported", <<platform>>),
       Line("error:supported-list", << >>),
       Line("error:how-to-add", <<platform>>) >>

\* buildSlashCommand: "/<platform> <prompt> <options>", kept in its parts.
buildSlashCommand(platform, prompt, options) ==
    [command |-> platform,
     prompt  |-> prompt,
     flags   |-> (IF options.dryRun THEN <<"--dry-run">> ELSE << >>)
                 \o (IF options.verbose THEN <<"--verbose">> ELSE << >>)]

MCP_SERVERS == <<"m">>

\* A variant of loadMCPServers without its own try/catch: the SyntaxError of
\* JSON.parse reaches the caller.
loadMCPServersNoCatch(file, envFile, penv) ==
    IF ~file.exists
    THEN [servers |-> JObj(<< >>), processEnv |-> penv, how |-> "absent", threw |-> FALSE,
          out |-> <<Line("warning:no-mcp-json", << >>)>>]
    ELSE LET le       == loadEnvironment(penv, envFile)
             expanded == expandEnvironmentVariables(file.text, le.env)
             config   == JSONparse(expanded.text)
             before   == (IF le.loaded THEN <<Line("env-local", << >>)>> ELSE << >>)
                         \o [k \in DOMAIN expanded.warns |->
                               Line("warning:env", expanded.warns[k].name)]
         IN  IF ~config.ok
             THEN [servers |-> JObj(<< >>), processEnv |-> le.processEnv,
                   how |-> "malformed", threw |-> TRUE, out |-> before]
             ELSE IF Truthy(GetProp(config.val, MCP_SERVERS))
             THEN LET servers == GetProp(config.val, MCP_SERVERS).val
                  IN  [servers |-> servers, processEnv |-> le.processEnv,
                       how |-> "loaded", threw |-> FALSE,
                       out |-> before \o
                               <<Line("loaded-servers",
                                      <<ToString(Cardinality(ObjectKeys(servers)))>>)>>]
             ELSE [servers |-> JObj(<< >>), processEnv |-> le.processEnv,
                   how |-> "no-servers", threw |-> FALSE, out |-> before]

\* A variant of loadMCPServers for which a missing document is an error that
\* execute's catch receives.
loadMCPServersAbsentFatal(file, envFile, penv) ==
    IF ~file.exists
    THEN [servers |-> JObj(<< >>), processEnv |-> penv, how |-> "absent", threw |-> TRUE,
          out |-> << >>]
    ELSE LET le       == loadEnvironment(penv, envFile)
             expanded == expandEnvironmentVariables(file.text, le.env)
             config   == JSONparse(expanded.text)
             before   == (IF le.loaded THEN <<Line("env-local", << >>)>> ELSE << >>)
                         \o [k \in DOMAIN expanded.warns |->
                               Line("warning:env", expanded.warns[k].name)]
         IN  IF ~config.ok
             THEN [servers |-> JObj(<< >>), processEnv |-> le.processEnv,
                   how |-> "malformed", threw |-> FALSE,
                   out |-> before \o <<Line("error:mcp-json", << >>)>>]
             ELSE IF Truthy(GetProp(config.val, MCP_SERVERS))
             THEN LET servers == GetProp(config.val, MCP_SERVERS).val
                  IN  [servers |-> servers, processEnv |-> le.processEnv,
                       how |-> "loaded", threw |-> FALSE,
                       out |-> before \o
                               <<Line("loaded-servers",
                                      <<ToString(Cardinality(ObjectKeys(servers)))>>)>>]
             ELSE [servers |-> JObj(<< >>), processEnv |-> le.processEnv,
                   how |-> "no-servers", threw |-> FALSE, out |-> before]

\* loadMCPServers, given the file .mcp.json, the file .env.local and
\* process.env: the servers returned, the lines written, the new
\* process.env, and how the load went.  Its own try/catch receives the
\* SyntaxError of JSON.parse, so that it never throws.
loadMCPServers(file, envFile, penv) ==
    IF ~file.exists
    THEN [servers |-> JObj(<< >>), processEnv |-> penv, how |-> "absent", threw |-> FALSE,
          out |-> <<Line("warning:no-mcp-json", << >>)>>]
    ELSE LET le       == loadEnvironment(penv, envFile)
             expanded == expandEnvironmentVariables(file.text, le.env)
             config   == JSONparse(expanded.text)
             before   == (IF le.loaded THEN <<Line("env-local", << >>)>> ELSE << >>)
                         \o [k \in DOMAIN expanded.warns |->
                               Line("warning:env", expanded.warns[k].name)]
         IN  IF ~config.ok
             THEN [servers |-> JObj(<< >>), processEnv |-> le.processEnv,
                   how |-> "malformed", threw |-> FALSE,
                   out |-> before \o <<Line("error:mcp-json", << >>)>>]
             ELSE IF Truthy(GetProp(config.val, MCP_SERVERS))
             THEN LET servers == GetProp(config.val, MCP_SERVERS).val
                  IN  [servers |-> servers, processEnv |-> le.processEnv,
                       how |-> "loaded", threw |-> FALSE,
                       out |-> before \o
                               <<Line("loaded-servers",
                                      <<ToString(Cardinality(ObjectKeys(servers)))>>)>>]
             ELSE [servers |-> JObj(<< >>), processEnv |-> le.processEnv,
                   how |-> "no-servers", threw |-> FALSE, out |-> before]

\* A variant of the request that never carries the resume field.
RequestFresh(slashCommand, mcpServers, options) ==
    [prompt     |-> slashCommand,
     mcpServers |-> mcpServers,
     resume     |-> [def |-> FALSE, val |-> ""]]

\* The request handed to query().
Request(slashCommand, mcpServers, options) ==
    [prompt     |-> slashCommand,
     mcpServers |-> mcpServers,
     resume     |-> IF ResumeGiven(options) THEN options.resume ELSE NoResume]

NoRequest == Request(buildSlashCommand("", << >>, [dryRun |-> FALSE, verbose |-> FALSE]),
                     JObj(<< >>), [resume |-> NoResume])

\* The catch block of execute: it ends with process.exit(1).
executeCatch(platform, options, lv) ==
    << Line("error:execution-failed", << >>) >>
    \o (IF options.verbose THEN LoggerDebug(lv, "debug:error-details", << >>) ELSE << >>)
    \o << Line("troubleshooting", <<platform>>) >>

\* A variant of the file test that finds every template.
existsSyncAlways(platform, tpl) == TRUE

\* fs.existsSync(commandPath), commandPath being .claude/commands/<platform>.md
\* and tpl the platforms that have such a file.
existsSync(platform, tpl) == platform \in tpl

\* execute, from its first line to the call of query(): all of it runs
\* without a suspension.  lv is the logger's verbose option on entry.
executeStart(platform, prompt, options, file, envFile, tpl, penv) ==
    LET lv     == options.verbose      \* logger.setVerbose(options.verbose)
        banner == << Line("header", <<toUpperCase(platform)>>),
                     IF ResumeGiven(options)
                     THEN Line("resuming", <<options.resume.val>>)
                     ELSE Line("request", prompt),
                     Line("platform", <<toUpperCase(platform)>>),
                     Line("mode", <<IF options.dryRun THEN "DRY RUN" ELSE "LIVE EXECUTION">>) >>
    IN  IF ~validatePlatform(platform)
        THEN [exit |-> TRUE, loggerVerbose |-> lv, processEnv |-> penv,
              how |-> "unsupported", request |-> NoRequest,
              out |-> banner \o validatePlatformErrors(platform)]
        ELSE IF ~existsSync(platform, tpl)
        THEN [exit |-> TRUE, loggerVerbose |-> lv, processEnv |-> penv,
              how |-> "no-template", request |-> NoRequest,
              out |-> banner \o <<Line("error:no-template", <<platform>>)>>]
        ELSE LET mcp   == loadMCPServers(file, envFile, penv)
                 slash == buildSlashCommand(platform, prompt, options)
                 debug == IF options.verbose
                          THEN LoggerDebug(lv, "debug:info", <<platform>>)
                               \o <<Line("separator", << >>)>>
                          ELSE << >>
             IN  IF mcp.threw      \* the catch block of execute
                 THEN [exit |-> TRUE, loggerVerbose |-> lv, processEnv |-> mcp.processEnv,
                       how |-> mcp.how, request |-> NoRequest,
                       out |-> banner \o mcp.out \o executeCatch(platform, options, lv)]
                 ELSE
                 [exit |-> FALSE, loggerVerbose |-> lv, processEnv |-> mcp.processEnv,
                  how |-> mcp.how,
                  request |-> Request(slash, mcp.servers, options),
                  out |-> banner \o mcp.out \o debug
                          \o <<Line("initializing", <<platform>>)>>]

(***************************************************************************)
(* TwitterPoster.generateFallbackVersions.                                 *)
(*                                                                         *)
(* A text is a sequence of characters.  A configuration is an object with  *)
(* either a content (a text) or tweets (an array of texts); an array is    *)
(* held by reference, so the arrays live in a heap, a sequence of arrays,  *)
(* and a configuration holds an index into it.  The other properties of a  *)
(* configuration are copied and never touched.                             *)
(***************************************************************************)
WordChars == {"a", "b"}         \* \w
Emoji == {"fire", "bulb"}       \* characters of the class [...] of 'simplified'
Dots == <<".", ".", ".">>
LearnedHook == "Here's what I learned: "
ThreadHook == "Thread: "

PostConfig(content) ==
    [hasContent |-> TRUE, content |-> content, hasTweets |-> FALSE, tweets |-> 0]
ThreadConfig(ref) ==
    [hasContent |-> FALSE, content |-> << >>, hasTweets |-> TRUE, tweets |-> ref]

\* s.substring(0, n), and array.slice(0, n)
substring(s, n) == SubSeq(s, 1, IF Len(s) < n THEN Len(s) ELSE n)

\* s.trim()
RECURSIVE trim(_)
trim(s) ==
    IF s # << >> /\ Head(s) = " " THEN trim(Tail(s))
    ELSE IF s # << >> /\ s[Len(s)] = " " THEN trim(SubSeq(s, 1, Len(s) - 1))
    ELSE s

RECURSIVE DropWord(_)
DropWord(s) == IF s # << >> /\ Head(s) \in WordChars THEN DropWord(Tail(s)) ELSE s

\* s.replace(/#\w+/g, '')
RECURSIVE removeHashtags(_)
removeHashtags(s) ==
    IF s = << >> THEN << >>
    ELSE IF Head(s) = "#" /\ Len(s) >= 2 /\ s[2] \in WordChars
    THEN removeHashtags(DropWord(Tail(s)))
    ELSE <<Head(s)>> \o removeHashtags(Tail(s))

StarsAt(s, k) == k + 1 <= Len(s) /\ s[k] = "*" /\ s[k + 1] = "*"

\* s.replace(/\*\*(.*?)\*\*/g, '$1')
RECURSIVE removeEmphasis(_)
removeEmphasis(s) ==
    IF s = << >> THEN << >>
    ELSE IF StarsAt(s, 1) /\ \E j \in 3..Len(s) : StarsAt(s, j)
    THEN LET j == CHOOSE j \in 3..Len(s) :
                      StarsAt(s, j) /\ \A i \in 3..(j - 1) : ~StarsAt(s, i)
         IN  SubSeq(s, 3, j - 1) \o removeEmphasis(SubSeq(s, j + 2, Len(s)))
    ELSE <<Head(s)>> \o removeEmphasis(Tail(s))

\* The text of the 'simplified' scenario.
simplified(s) == trim(removeEmphasis(SelectSeq(s, LAMBDA c : c \notin Emoji)))

\* The text of the 'no-hashtags' scenario.
noHashtags(s) == trim(removeHashtags(s))

\* One turn of scenarios.forEach.  const fallback = { ...originalConfig }
\* copies the properties: the copy holds the same tweets array.
forEachTurn(arrays, originalConfig, scenario) ==
    LET isThread == originalConfig.hasTweets
        fallback == originalConfig
        Content(text) == [arrays |-> arrays,
                          fallback |-> [fallback EXCEPT !.content = text]]
        Tweets(array) == [arrays |-> Append(arrays, array),
                          fallback |-> [fallback EXCEPT !.tweets = Len(arrays) + 1]]
        Same == [arrays |-> arrays, fallback |-> fallback]
    IN  CASE scenario = "short" ->
               IF isThread /\ fallback.hasTweets
               THEN Tweets(substring(arrays[fallback.tweets], 3))
               ELSE IF fallback.hasContent
               THEN Content(substring(fallback.content, 200) \o Dots)
               ELSE Same
          [] scenario = "no-hashtags" ->
               IF fallback.hasContent
               THEN Content(noHashtags(fallback.content))
               ELSE IF fallback.hasTweets
               THEN Tweets([k \in DOMAIN arrays[fallback.tweets] |->
                              noHashtags(arrays[fallback.tweets][k])])
               ELSE Same
          [] scenario = "different-hook" ->
               IF fallback.hasContent
               THEN Content(<<LearnedHook>> \o fallback.content)
               ELSE IF fallback.hasTweets /\ Len(arrays[fallback.tweets]) > 0
               THEN \* fallback.tweets[0] = ...: written into the array held
                    [arrays   |-> [arrays EXCEPT ![fallback.tweets][1] =
                                     <<ThreadHook>> \o arrays[fallback.tweets][1]],
                     fallback |-> fallback]
               ELSE Same
          [] scenario = "simplified" ->
               IF fallback.hasContent
               THEN Content(simplified(fallback.content))
               ELSE IF fallback.hasTweets
               THEN Tweets([k \in DOMAIN arrays[fallback.tweets] |->
                              simplified(arrays[fallback.tweets][k])])
               ELSE Same
          [] OTHER -> Same

\* generateFallbackVersions(originalConfig, scenarios), on the heap arrays:
\* the heap after the call and the fallbacks returned.
RECURSIVE generateFallbackVersions(_, _, _)
generateFallbackVersions(arrays, originalConfig, scenarios) ==
    IF scenarios = << >> THEN [arrays |-> arrays, fallbacks |-> << >>]
    ELSE LET turn == forEachTurn(arrays, originalConfig, Head(scenarios))
             rest == generateFallbackVersions(turn.arrays, originalConfig, Tail(scenarios))
         IN  [arrays |-> rest.arrays, fallbacks |-> <<turn.fallback>> \o rest.fallbacks]

(***************************************************************************)
(* Stream events (SDKMessage).                                             *)
(***************************************************************************)
NoContent == [kind |-> "none", chars |-> << >>, blocks |-> << >>]
StringContent(cs) == [kind |-> "string", chars |-> cs, blocks |-> << >>]
BlockContent(bs) == [kind |-> "blocks", chars |-> << >>, blocks |-> bs]
OtherContent == [kind |-> "other", chars |-> << >>, blocks |-> << >>]

TextBlock(cs) == [type |-> "text", text |-> cs]
ToolBlock == [type |-> "tool_use", text |-> << >>]

Message(t) ==
    [type       |-> t,
     session_id |-> "",          \* "" when the event carries none
     model      |-> FALSE,       \* 'model' in message
     servers    |-> << >>,       \* message.mcp_servers
     hasMessage |-> TRUE,        \* message.message is an object
     content    |-> NoContent,   \* message.message.content
     subtype    |-> "",
     hasResult  |-> FALSE,       \* 'result' in message
     usage      |-> "absent"]    \* 'usage' in message: absent, null or present

SystemMsg(id, model, servers) ==
    [Message("system") EXCEPT !.session_id = id, !.model = model, !.servers = servers]
AssistantMsg(content) == [Message("assistant") EXCEPT !.content = content]
AssistantNoMessage == [Message("assistant") EXCEPT !.hasMessage = FALSE]
UserMsg == Message("user")
ResultMsg(subtype, hasResult, usage) ==
    [Message("result") EXCEPT !.subtype = subtype, !.hasResult = hasResult, !.usage = usage]
HeartbeatMsg == Message("heartbeat")

\* A variant that joins the sub-parts last first.
RECURSIVE JoinTextReversed(_)
JoinTextReversed(blocks) ==
    IF blocks = << >> THEN << >>
    ELSE JoinTextReversed(Tail(blocks))
         \o (IF Head(blocks).type = "text" THEN Head(blocks).text ELSE << >>)

\* content.filter(c => c.type === 'text').map(c => c.text).join('')
RECURSIVE JoinText(_)
JoinText(blocks) ==
    IF blocks = << >> THEN << >>
    ELSE (IF Head(blocks).type = "text" THEN Head(blocks).text ELSE << >>)
         \o JoinText(Tail(blocks))

\* content.trim() is not empty
TrimNonEmpty(cs) == \E k \in DOMAIN cs : cs[k] # " "

\* processMessage(message, verbose, messageNumber), lv being the logger's
\* verbose option at the time: the lines written, and whether it throws a
\* TypeError (which execute's catch receives).
processMessage(message, verbose, messageNumber, lv) ==
    LET n == <<ToString(messageNumber)>>
    IN  CASE message.type = "system" ->
               [threw |-> FALSE,
                out |-> IF verbose
                        THEN (IF message.model THEN <<Line("system:model", n)>> ELSE << >>)
                             \o (IF Len(message.servers) > 0
                                 THEN <<Line("system:mcp-servers", message.servers)>>
                                 ELSE << >>)
                        ELSE << >>]
          [] message.type = "assistant" ->
               IF ~message.hasMessage THEN [threw |-> TRUE, out |-> << >>]
               ELSE IF message.content.kind = "none" THEN [threw |-> FALSE, out |-> << >>]
               ELSE IF message.content.kind = "other" THEN [threw |-> TRUE, out |-> << >>]
               ELSE LET content == IF message.content.kind = "blocks"
                                   THEN JoinText(message.content.blocks)
                                   ELSE message.content.chars
                    IN  [threw |-> FALSE,
                         out |-> IF TrimNonEmpty(content)
                                 THEN (IF verbose THEN LoggerDebug(lv, "debug:assistant", n)
                                       ELSE << >>)
                                      \o <<Line("text", content)>>
                                      \o (IF verbose THEN <<Line("separator", << >>)>>
                                          ELSE << >>)
                                 ELSE << >>]
          [] message.type = "user" ->
               [threw |-> FALSE,
                out |-> IF verbose THEN LoggerDebug(lv, "debug:user", n) ELSE << >>]
          [] message.type = "result" ->
               LET head == <<Line("result", n)>>
                           \o (IF message.subtype = "success"
                               THEN <<Line("success", << >>)>>
                                    \o (IF message.hasResult
                                        THEN <<Line("final-output", << >>)>> ELSE << >>)
                               ELSE <<Line("error:operation-failed", <<message.subtype>>)>>)
               IN  IF verbose /\ message.usage # "absent"
                   THEN IF message.usage = "null"
                        THEN [threw |-> TRUE, out |-> head]
                        ELSE [threw |-> FALSE, out |-> head \o LoggerUsage(lv)]
                   ELSE [threw |-> FALSE, out |-> head]
          [] OTHER ->
               [threw |-> FALSE,
                out |-> IF verbose
                        THEN LoggerDebug(lv, "debug:unknown", n \o <<message.type>>)
                        ELSE << >>]

NoSession == [def |-> FALSE, val |-> ""]

\* A variant of the loop's turn without the test "&& !sessionId": every
\* identifier received replaces the one held.
executeLoopNoLatch(c, message, platform, options, lv) ==
    LET count == c.messageCount + 1
        latch == message.type = "system" /\ message.session_id # ""
        pm    == processMessage(message, options.verbose, count, lv)
    IN  [messageCount |-> count,
         sessionId    |-> IF latch THEN [def |-> TRUE, val |-> message.session_id]
                          ELSE c.sessionId,
         threw        |-> pm.threw,
         out          |-> (IF latch THEN <<Line("session", <<message.session_id, platform>>)>>
                           ELSE << >>)
                          \o pm.out
                          \o (IF pm.threw THEN executeCatch(platform, options, lv)
                              ELSE << >>)]

\* A variant of the loop's turn that counts only the messages of the four
\* known types.
executeLoopKnownOnly(c, message, platform, options, lv) ==
    LET count == IF message.type \in {"system", "assistant", "user", "result"}
                 THEN c.messageCount + 1 ELSE c.messageCount
        latch == message.type = "system" /\ message.session_id # "" /\ ~c.sessionId.def
        pm    == processMessage(message, options.verbose, count, lv)
    IN  [messageCount |-> count,
         sessionId    |-> IF latch THEN [def |-> TRUE, val |-> message.session_id]
                          ELSE c.sessionId,
         threw        |-> pm.threw,
         out          |-> (IF latch THEN <<Line("session", <<message.session_id, platform>>)>>
                           ELSE << >>)
                          \o pm.out
                          \o (IF pm.threw THEN executeCatch(platform, options, lv)
                              ELSE << >>)]

\* A variant of the loop's turn that raises on a message whose type has no
\* case in processMessage.
executeLoopStrict(c, message, platform, options, lv) ==
    LET count == c.messageCount + 1
        latch == message.type = "system" /\ message.session_id # "" /\ ~c.sessionId.def
        pm    == processMessage(message, options.verbose, count, lv)
        threw == pm.threw \/ message.type \notin {"system", "assistant", "user", "result"}
    IN  [messageCount |-> count,
         sessionId    |-> IF latch THEN [def |-> TRUE, val |-> message.session_id]
                          ELSE c.sessionId,
         threw        |-> threw,
         out          |-> (IF latch THEN <<Line("session", <<message.session_id, platform>>)>>
                           ELSE << >>)
                          \o pm.out
                          \o (IF threw THEN executeCatch(platform, options, lv)
                              ELSE << >>)]

\* A variant of the loop's turn that takes the first message of a stream as
\* a handshake and counts from the second.
executeLoopCountsLate(c, message, platform, options, lv) ==
    LET count == IF c.events = << >> THEN 0 ELSE c.messageCount + 1
        latch == message.type = "system" /\ message.session_id # "" /\ ~c.sessionId.def
        pm    == processMessage(message, options.verbose, count, lv)
    IN  [messageCount |-> count,
         sessionId    |-> IF latch THEN [def |-> TRUE, val |-> message.session_id]
                          ELSE c.sessionId,
         threw        |-> pm.threw,
         out          |-> (IF latch THEN <<Line("session", <<message.session_id, platform>>)>>
                           ELSE << >>)
                          \o pm.out
                          \o (IF pm.threw THEN executeCatch(platform, options, lv)
                              ELSE << >>)]

\* One turn of the loop "for await (const message of response)" of execute,
\* on the loop's state c = [messageCount, sessionId].
executeLoop(c, message, platform, options, lv) ==
    LET count == c.messageCount + 1
        latch == message.type = "system" /\ message.session_id # "" /\ ~c.sessionId.def
        pm    == processMessage(message, options.verbose, count, lv)
    IN  [messageCount |-> count,
         sessionId    |-> IF latch THEN [def |-> TRUE, val |-> message.session_id]
                          ELSE c.sessionId,
         threw        |-> pm.threw,
         out          |-> (IF latch THEN <<Line("session", <<message.session_id, platform>>)>>
                           ELSE << >>)
                          \o pm.out
                          \o (IF pm.threw THEN executeCatch(platform, options, lv)
                              ELSE << >>)]

\* After the loop: logger.stats(duration, messageCount).
executeStats(messageCount) == <<Line("stats", <<ToString(messageCount)>>)>>

(***************************************************************************)
(* The entry points.  Each yields the call of execute it makes, or the     *)
(* exit code it ends with before any call.                                 *)
(***************************************************************************)
IsFlagArg(arg) == StartsWithDashes(arg) \/ arg = "-v" \/ arg = "-h"

ParsedOptions(args, resume) ==
    [dryRun  |-> includes(args, "--dry-run") \/ includes(args, "--preview"),
     verbose |-> includes(args, "--verbose") \/ includes(args, "-v"),
     resume  |-> resume]

HelpAsked(args) == includes(args, "--help") \/ includes(args, "-h")

Exits(code, out) ==
    [call |-> FALSE, code |-> code, out |-> out, platform |-> "", prompt |-> << >>,
     options |-> ParsedOptions(<< >>, NoResume)]

Calls(platform, prompt, options) ==
    [call |-> TRUE, code |-> 0, out |-> << >>, platform |-> platform, prompt |-> prompt,
     options |-> options]

\* twitter.ts: main
twitterMain(args) ==
    LET resumeIndex == indexOf(args, "--resume")
        resume == IF resumeIndex > 0 /\ resumeIndex + 1 <= Len(args)
                     /\ args[resumeIndex + 1] # ""
                  THEN [def |-> TRUE, val |-> args[resumeIndex + 1]]
                  ELSE NoResume
        options == ParsedOptions(args, resume)
        kept == { index \in DOMAIN args :
                    /\ ~IsFlagArg(args[index])
                    /\ ~(resumeIndex > 0 /\ index = resumeIndex + 1) }
        prompt == FilterIdx(args, kept, 1)
    IN  IF HelpAsked(args) \/ (Len(args) = 0 /\ ~resume.def)
        THEN Exits(0, <<Line("help", << >>)>>)
        ELSE IF TrimEmpty(prompt) /\ ~resume.def
        THEN Exits(1, <<Line("error:no-prompt", << >>), Line("help", << >>)>>)
        ELSE Calls("twitter", prompt, options)

\* social.ts: main
socialMain(args) ==
    LET options == ParsedOptions(args, NoResume)
        plain == { k \in DOMAIN args : ~IsFlagArg(args[k]) }
        platform == args[CHOOSE k \in plain : \A j \in plain : k <= j]
        kept == { index \in DOMAIN args : ~IsFlagArg(args[index]) /\ args[index] # platform }
        prompt == FilterIdx(args, kept, 1)
    IN  IF HelpAsked(args) \/ Len(args) = 0
        THEN Exits(0, <<Line("help", << >>)>>)
        ELSE IF plain = {} \/ platform = ""
        THEN Exits(1, <<Line("error:no-platform", << >>), Line("help", << >>)>>)
        ELSE IF TrimEmpty(prompt)
        THEN Exits(1, <<Line("error:no-prompt", << >>), Line("help", << >>)>>)
        ELSE Calls(platform, prompt, options)

main(entry, args) == IF entry = "twitter" THEN twitterMain(args) ELSE socialMain(args)

(***************************************************************************)
(* State.                                                                  *)
(***************************************************************************)
VARIABLES
    mcpFile,        \* the file .mcp.json: whether it exists, and its text
    envLocal,       \* the file .env.local: whether it exists, and its variables
    templates,      \* the platforms p whose file .claude/commands/p.md exists
    ambient,        \* the environment a new process starts with
    processEnv,     \* process.env of the running process
    loggerVerbose,  \* logger.options.verbose of the one logger of the process
    exitCode,       \* -1 while the process runs, then its exit code
    inv,            \* the invocations of the process, by identifier
    requests,       \* the calls of query() made by the process, in order
    run,            \* the number of the process (1 for the first one started)
    surfaced,       \* the session identifiers printed by completed earlier runs
    xin,            \* expansion alone: the template and the environment object
    xout,           \* expansion alone: the result (done is FALSE before the call)
    fbIn,           \* fallbacks alone: the arrays, the configuration, the scenarios
    fbOut           \* fallbacks alone: the arrays and the fallbacks after the call

fileVars == <<mcpFile, envLocal, templates, ambient>>
procVars == <<processEnv, loggerVerbose, exitCode, inv, requests, run, surfaced>>
xVars == <<xin, xout, fbIn, fbOut>>
vars == <<fileVars, procVars, xVars>>

InvIds == {1, 2}

NoOptions == [dryRun |-> FALSE, verbose |-> FALSE, resume |-> NoResume]

IdleInv ==
    [pc           |-> "idle",      \* idle, streaming, returned, exited
     entry        |-> "",          \* twitter, social, or library (execute called directly)
     args         |-> << >>,
     called       |-> FALSE,       \* execute has been entered
     platform     |-> "",
     prompt       |-> << >>,
     options      |-> NoOptions,
     how          |-> "",          \* how execute's start went
     ending       |-> "",          \* how the invocation ended
     messageCount |-> 0,
     sessionId    |-> NoSession,
     events       |-> << >>,       \* the messages received, in order
     out          |-> << >>]       \* the lines written

NoFile == [exists |-> FALSE, text |-> << >>]
File(text) == [exists |-> TRUE, text |-> text]

NoEnvFile == [exists |-> FALSE, vars |-> << >>]
EnvFile(vs) == [exists |-> TRUE, vars |-> vs]

\* The state of a process that has just started.
FreshProcess ==
    /\ processEnv = ambient
    /\ loggerVerbose = FALSE
    /\ exitCode = -1
    /\ inv = [i \in InvIds |-> IdleInv]
    /\ requests = << >>

NoExpansionRun ==
    /\ xin = [template |-> << >>, env |-> << >>]
    /\ xout = [done |-> FALSE, res |-> NoExpansion]

NoFallbackRun ==
    /\ fbIn = [arrays |-> << >>, originalConfig |-> PostConfig(<< >>), scenarios |-> << >>]
    /\ fbOut = [done |-> FALSE, arrays |-> << >>, fallbacks |-> << >>]

(***************************************************************************)
(* Operations.                                                             *)
(***************************************************************************)
\* execute(platform, prompt, options) is entered by invocation i, which has
\* already written the lines pre.
Enter(i, entry, args, platform, prompt, options, pre) ==
    \E e \in { executeStart(platform, prompt, options, mcpFile, envLocal, templates,
                             processEnv) } :
    LET started == [IdleInv EXCEPT !.entry = entry, !.args = args, !.called = TRUE,
                                   !.platform = platform, !.prompt = prompt,
                                   !.options = options, !.how = e.how,
                                   !.out = pre \o e.out]
    IN  /\ loggerVerbose' = e.loggerVerbose
        /\ processEnv' = e.processEnv
        /\ IF e.exit
           THEN /\ inv' = [inv EXCEPT ![i] = [started EXCEPT !.pc = "exited",
                                                               !.ending = "validation"]]
                /\ exitCode' = 1
                /\ UNCHANGED requests
           ELSE /\ inv' = [inv EXCEPT ![i] = [started EXCEPT !.pc = "streaming"]]
                /\ requests' = Append(requests, [by |-> i, request |-> e.request])
                /\ UNCHANGED exitCode

\* A command line entry point runs: main() up to the first suspension.
Start(entry, args) ==
    /\ exitCode = -1
    /\ inv[1].pc = "idle"
    /\ \E m \in { main(entry, args) } :
           IF m.call
           THEN Enter(1, entry, args, m.platform, m.prompt, m.options, m.out)
           ELSE /\ inv' = [inv EXCEPT ![1] = [IdleInv EXCEPT !.pc = "exited",
                                                               !.entry = entry,
                                                               !.args = args,
                                                               !.ending = "main",
                                                               !.out = m.out]]
                /\ exitCode' = m.code
                /\ UNCHANGED <<loggerVerbose, processEnv, requests>>
    /\ UNCHANGED <<fileVars, run, surfaced, xVars>>

\* A program that uses the executor as a library calls execute.
ExecuteCall(i, platform, prompt, options) ==
    /\ exitCode = -1
    /\ inv[i].pc = "idle"
    /\ Enter(i, "library", << >>, platform, prompt, options, << >>)
    /\ UNCHANGED <<fileVars, run, surfaced, xVars>>

\* A variant of the loop that hands a message over without waiting for its
\* handling: what the message writes comes out before what was written.
ReceiveUnawaited(i, message) ==
    /\ exitCode = -1
    /\ inv[i].pc = "streaming"
    /\ LET c == inv[i]
           r == executeLoop(c, message, c.platform, c.options, loggerVerbose)
           next == [c EXCEPT !.messageCount = r.messageCount,
                             !.sessionId = r.sessionId,
                             !.events = Append(c.events, message),
                             !.out = r.out \o c.out]
       IN  IF r.threw
           THEN /\ inv' = [inv EXCEPT ![i] = [next EXCEPT !.pc = "exited",
                                                           !.ending = "type-error"]]
                /\ exitCode' = 1
           ELSE /\ inv' = [inv EXCEPT ![i] = next]
                /\ UNCHANGED exitCode
    /\ UNCHANGED <<fileVars, processEnv, loggerVerbose, requests, run, surfaced, xVars>>

\* The backend delivers a message to invocation i: one turn of the loop.
Receive(i, message) ==
    /\ exitCode = -1
    /\ inv[i].pc = "streaming"
    /\ LET c == inv[i]
           r == executeLoop(c, message, c.platform, c.options, loggerVerbose)
           next == [c EXCEPT !.messageCount = r.messageCount,
                             !.sessionId = r.sessionId,
                             !.events = Append(c.events, message),
                             !.out = c.out \o r.out]
       IN  IF r.threw
           THEN /\ inv' = [inv EXCEPT ![i] = [next EXCEPT !.pc = "exited",
                                                           !.ending = "type-error"]]
                /\ exitCode' = 1
           ELSE /\ inv' = [inv EXCEPT ![i] = next]
                /\ UNCHANGED exitCode
    /\ UNCHANGED <<fileVars, processEnv, loggerVerbose, requests, run, surfaced, xVars>>

\* A variant of the catch block that reports the error and goes on waiting
\* for the next message instead of ending the process.
ThrowContinues(i) ==
    /\ exitCode = -1
    /\ inv[i].pc = "streaming"
    /\ LET c == inv[i]
       IN  inv' = [inv EXCEPT ![i] =
                     [c EXCEPT !.ending = "transport-error",
                               !.out = c.out \o executeCatch(c.platform, c.options,
                                                              loggerVerbose)]]
    /\ UNCHANGED exitCode
    /\ UNCHANGED <<fileVars, processEnv, loggerVerbose, requests, run, surfaced, xVars>>

\* A variant of the catch block that issues the query again and goes on
\* waiting for messages.
ThrowRetries(i) ==
    /\ exitCode = -1
    /\ inv[i].pc = "streaming"
    /\ Len(requests) < 4
    /\ LET c == inv[i]
       IN  /\ inv' = [inv EXCEPT ![i] =
                        [c EXCEPT !.out = c.out \o executeCatch(c.platform, c.options,
                                                                 loggerVerbose)]]
           /\ requests' = Append(requests,
                                 CHOOSE r \in Range(requests) : r.by = i)
    /\ UNCHANGED <<fileVars, processEnv, loggerVerbose, exitCode, run, surfaced, xVars>>

\* The backend raises while invocation i waits for the next message.
Throw(i) ==
    /\ exitCode = -1
    /\ inv[i].pc = "streaming"
    /\ LET c == inv[i]
       IN  inv' = [inv EXCEPT ![i] =
                     [c EXCEPT !.pc = "exited", !.ending = "transport-error",
                               !.out = c.out \o executeCatch(c.platform, c.options,
                                                              loggerVerbose)]]
    /\ exitCode' = 1
    /\ UNCHANGED <<fileVars, processEnv, loggerVerbose, requests, run, surfaced, xVars>>

\* The stream of invocation i is exhausted: execute returns.  An entry point
\* then prints its "operation completed" line and the process ends with code 0.
StreamEnd(i) ==
    /\ exitCode = -1
    /\ inv[i].pc = "streaming"
    /\ LET c == inv[i]
           stats == executeStats(c.messageCount)
       IN  IF c.entry = "library"
           THEN /\ inv' = [inv EXCEPT ![i] = [c EXCEPT !.pc = "returned",
                                                        !.ending = "returned",
                                                        !.out = c.out \o stats]]
                /\ UNCHANGED exitCode
           ELSE /\ inv' = [inv EXCEPT ![i] =
                             [c EXCEPT !.pc = "exited", !.ending = "returned",
                                       !.out = c.out \o stats
                                               \o <<Line("completed", <<c.platform>>)>>]]
                /\ exitCode' = 0
    /\ UNCHANGED <<fileVars, processEnv, loggerVerbose, requests, run, surfaced, xVars>>

\* The process has ended and the user starts the next one, knowing the
\* session identifier that the run printed if it completed.
Restart ==
    /\ exitCode # -1
    /\ run' = run + 1
    /\ surfaced' = surfaced \cup
                     { inv[i].sessionId.val :
                         i \in { j \in InvIds : exitCode = 0 /\ inv[j].sessionId.def } }
    /\ processEnv' = ambient
    /\ loggerVerbose' = FALSE
    /\ exitCode' = -1
    /\ inv' = [i \in InvIds |-> IdleInv]
    /\ requests' = << >>
    /\ UNCHANGED <<fileVars, xVars>>

(***************************************************************************)
(* Inputs.                                                                 *)
(***************************************************************************)
Str(cs) == <<Q>> \o cs \o <<Q>>
Obj(k, v) == <<"{">> \o Str(<<k>>) \o <<":">> \o v \o <<"}">>
PlaceholderA == <<"$", "{", "A", "}">>
PlaceholderB == <<"$", "{", "B", "}">>

\* {"m":{"s":{"k":"${A}"}}}: one service, one field with a placeholder
DocOneService == Obj("m", Obj("s", Obj("k", Str(PlaceholderA))))
\* {"m":{"s":{"k":"${B}"},"s2":{"k":"${A}"}}}: two services
DocTwoServices ==
    Obj("m", <<"{">> \o Str(<<"s">>) \o <<":">> \o Obj("k", Str(PlaceholderB)) \o <<",">>
             \o Str(<<"s", "2">>) \o <<":">> \o Obj("k", Str(PlaceholderA)) \o <<"}">>)
\* {"x":{}}: well-formed, without the servers key
DocNoServers == Obj("x", <<"{", "}">>)
\* The text of DocOneService cut before its last brace
DocTruncated == SubSeq(DocOneService, 1, Len(DocOneService) - 1)
\* {"m":{"s":${A}}}: a placeholder outside a string
DocBarePlaceholder == Obj("m", Obj("s", PlaceholderA))

EnvA == <<"A">> :> <<"v">>

SystemMessages ==
    { SystemMsg("s1", TRUE, <<"rube">>), SystemMsg("s2", FALSE, << >>),
      SystemMsg("", FALSE, << >>) }

AssistantMessages ==
    { AssistantMsg(StringContent(<<"a">>)),
      AssistantMsg(StringContent(<<" ">>)), AssistantMsg(NoContent),
      AssistantMsg(BlockContent(<<TextBlock(<<"a">>), ToolBlock, TextBlock(<<"b">>)>>)),
      AssistantNoMessage }

ResultMessages ==
    { ResultMsg("success", TRUE, "present"), ResultMsg("error_max_turns", FALSE, "present"),
      ResultMsg("success", TRUE, "null") }

Messages ==
    SystemMessages \cup AssistantMessages \cup ResultMessages \cup {UserMsg, HeartbeatMsg}

\* The messages used where the streams are not what varies.
CliMessages ==
    { SystemMsg("s1", TRUE, <<"rube">>), SystemMsg("s2", FALSE, << >>),
      ResultMsg("success", TRUE, "present"), AssistantNoMessage }

(***************************************************************************)
(* The command line tools, over all short command lines.                   *)
(***************************************************************************)
Entries == {"twitter", "social"}

Tokens == {"twitter", "myspace", "hello", "", "--resume", "s1", "--verbose", "--help"}

ArgLists == SeqsUpTo(Tokens, MaxArgs)

Init ==
    /\ mcpFile = File(DocOneService)
    /\ envLocal = NoEnvFile
    /\ templates \in {{"twitter"}, {"myspace"}}
    /\ ambient = EnvA
    /\ FreshProcess
    /\ run = 1
    /\ surfaced = {}
    /\ NoExpansionRun
    /\ NoFallbackRun

CliStart ==
    /\ inv[1].pc = "idle"
    /\ \E entry \in Entries, args \in ArgLists : Start(entry, args)

CliReceive ==
    /\ inv[1].messageCount < MaxCliEvents
    /\ \E message \in CliMessages : Receive(1, message)

CliThrow == Throw(1)

CliStreamEnd == StreamEnd(1)

Next == CliStart \/ CliReceive \/ CliThrow \/ CliStreamEnd

Spec == Init /\ [][Next]_vars

(***************************************************************************)
(* The command line tools run one process after the other, the user        *)
(* passing on the session identifiers that completed runs have printed.    *)
(***************************************************************************)
ResumeTokens == {"twitter", "hello", "--resume", "s1", "s2"}

ResumeArgLists == SeqsUpTo(ResumeTokens, MaxArgs)

InitResume ==
    /\ mcpFile = File(DocOneService)
    /\ envLocal = NoEnvFile
    /\ templates = {"twitter"}
    /\ ambient = EnvA
    /\ FreshProcess
    /\ run = 1
    /\ surfaced = {}
    /\ NoExpansionRun
    /\ NoFallbackRun

ResumeStart ==
    /\ inv[1].pc = "idle"
    /\ \E entry \in Entries, args \in ResumeArgLists : Start(entry, args)

ResumeReceive ==
    /\ inv[1].messageCount < MaxCliEvents
    /\ \E message \in CliMessages : Receive(1, message)

ResumeThrow == Throw(1)

ResumeStreamEnd == StreamEnd(1)

ResumeRestart == run < MaxRuns /\ Restart

NextResume ==
    ResumeStart \/ ResumeReceive \/ ResumeThrow \/ ResumeStreamEnd \/ ResumeRestart

SpecResume == InitResume /\ [][NextResume]_vars

(***************************************************************************)
(* The command line tools, over all short streams.                         *)
(***************************************************************************)
StreamArgLists == { <<"hello">>, <<"hello", "--verbose">> }

InitStream ==
    /\ mcpFile = File(DocOneService)
    /\ envLocal = NoEnvFile
    /\ templates = {"twitter"}
    /\ ambient = EnvA
    /\ FreshProcess
    /\ run = 1
    /\ surfaced = {}
    /\ NoExpansionRun
    /\ NoFallbackRun

StreamStart == \E args \in StreamArgLists : Start("twitter", args)

StreamReceive ==
    /\ inv[1].messageCount < MaxEvents
    /\ \E message \in Messages : Receive(1, message)

StreamThrow == Throw(1)

StreamStreamEnd == StreamEnd(1)

NextStream == StreamStart \/ StreamReceive \/ StreamThrow \/ StreamStreamEnd

SpecStream == InitStream /\ [][NextStream]_vars

(***************************************************************************)
(* The command line tools, over streams of assistant messages.             *)
(***************************************************************************)
TextMessages ==
    { AssistantMsg(StringContent(<<"a">>)), AssistantMsg(StringContent(<<"b">>)),
      AssistantMsg(StringContent(<<" ">>)),
      AssistantMsg(BlockContent(<<TextBlock(<<"a">>), ToolBlock, TextBlock(<<"b">>)>>)),
      AssistantMsg(BlockContent(<<TextBlock(<<"b">>), TextBlock(<<" ">>)>>)),
      AssistantMsg(BlockContent(<<TextBlock(<<" ">>), TextBlock(<< >>)>>)),
      AssistantMsg(BlockContent(<<ToolBlock>>)),
      AssistantMsg(BlockContent(<< >>)),
      SystemMsg("s1", TRUE, <<"rube">>) }

TextReceive ==
    /\ inv[1].messageCount < MaxTextEvents
    /\ \E message \in TextMessages : Receive(1, message)

NextText == StreamStart \/ TextReceive \/ StreamThrow \/ StreamStreamEnd

SpecText == InitStream /\ [][NextText]_vars

(***************************************************************************)
(* social.ts, over the command lines made of a platform, a prompt and a    *)
(* resume option.                                                          *)
(***************************************************************************)
SocialTokens == {"twitter", "hello", "--resume", "s1"}

SocialArgLists == SeqsUpTo(SocialTokens, MaxSocialArgs)

SocialStart ==
    /\ inv[1].pc = "idle"
    /\ \E args \in SocialArgLists : Start("social", args)

NextSocial == SocialStart \/ CliReceive \/ CliThrow \/ CliStreamEnd

SpecSocial == Init /\ [][NextSocial]_vars

(***************************************************************************)
(* The command line tools, over the descriptor documents and environments. *)
(***************************************************************************)
McpFiles ==
    { NoFile, File(DocOneService), File(DocTwoServices), File(DocNoServers),
      File(DocTruncated), File(DocBarePlaceholder), File(<< >>) }

EnvFiles ==
    { NoEnvFile, EnvFile(EnvA), EnvFile(<<"A">> :> <<"w">>),
      EnvFile(<<"A">> :> Str(<<"w">>)) }

Ambients == { << >>, EnvA, <<"B">> :> <<"u">> }

ConfigArgLists == { <<"hello">>, <<"hello", "--verbose">> }

InitConfig ==
    /\ mcpFile \in McpFiles
    /\ envLocal \in EnvFiles
    /\ templates \in {{}, {"twitter"}}
    /\ ambient \in Ambients
    /\ FreshProcess
    /\ run = 1
    /\ surfaced = {}
    /\ NoExpansionRun
    /\ NoFallbackRun

ConfigStart == \E args \in ConfigArgLists : Start("twitter", args)

ConfigReceive ==
    /\ inv[1].messageCount < MaxCliEvents
    /\ \E message \in CliMessages : Receive(1, message)

ConfigThrow == Throw(1)

ConfigStreamEnd == StreamEnd(1)

NextConfig == ConfigStart \/ ConfigReceive \/ ConfigThrow \/ ConfigStreamEnd

SpecConfig == InitConfig /\ [][NextConfig]_vars

(***************************************************************************)
(* social.ts, over the platform identifiers and the template documents.    *)
(***************************************************************************)
PlatformIds == {"twitter", "Twitter", "reddit", "myspace"}

\* The names under which fs.existsSync finds a template document: on a file
\* system that folds case, twitter.md is found under Twitter.md as well.
PlatformTemplates == { {}, {"twitter"}, {"twitter", "Twitter"}, {"twitter", "reddit"} }

PlatformArgLists ==
    { <<p>> : p \in PlatformIds } \cup { <<p, "hello">> : p \in PlatformIds }
        \cup { <<p, "hello", "--verbose">> : p \in PlatformIds }

InitPlatform ==
    /\ mcpFile = File(DocOneService)
    /\ envLocal = NoEnvFile
    /\ templates \in PlatformTemplates
    /\ ambient = EnvA
    /\ FreshProcess
    /\ run = 1
    /\ surfaced = {}
    /\ NoExpansionRun
    /\ NoFallbackRun

PlatformStart == \E args \in PlatformArgLists : Start("social", args)

NextPlatform == PlatformStart \/ CliReceive \/ CliThrow \/ CliStreamEnd

SpecPlatform == InitPlatform /\ [][NextPlatform]_vars

(***************************************************************************)
(* generateFallbackVersions alone, over posts, threads and scenario lists. *)
(***************************************************************************)
Scenarios == {"short", "no-hashtags", "different-hook", "simplified"}

ScenarioLists == SeqsUpTo(Scenarios, MaxScenarios)

Contents ==
    { <<"a">>, <<"a", " ", "#", "b">>, <<"*", "*", "a", "*", "*", " ", "fire">>,
      <<"#", " ", "a", "b", "#", "a", "b", " ">> }

Threads ==
    { << >>, << <<"a">>, <<"b", " ", "#", "a">> >>,
      << <<"fire", "a">>, <<"b">>, <<"*", "*", "b", "*", "*">>, <<"a", "b">> >> }

FallbackInputs ==
    { [arrays |-> << >>, originalConfig |-> PostConfig(c)] : c \in Contents }
    \cup { [arrays |-> <<t>>, originalConfig |-> ThreadConfig(1)] : t \in Threads }

InitFallback ==
    /\ \E input \in FallbackInputs, scenarios \in ScenarioLists :
           fbIn = [arrays |-> input.arrays, originalConfig |-> input.originalConfig,
                   scenarios |-> scenarios]
    /\ fbOut = [done |-> FALSE, arrays |-> << >>, fallbacks |-> << >>]
    /\ mcpFile = NoFile
    /\ envLocal = NoEnvFile
    /\ templates = {}
    /\ ambient = << >>
    /\ FreshProcess
    /\ run = 1
    /\ surfaced = {}
    /\ NoExpansionRun

Generate ==
    /\ ~fbOut.done
    /\ \E r \in { generateFallbackVersions(fbIn.arrays, fbIn.originalConfig,
                                            fbIn.scenarios) } :
           fbOut' = [done |-> TRUE, arrays |-> r.arrays, fallbacks |-> r.fallbacks]
    /\ UNCHANGED <<fbIn, xin, xout, fileVars, procVars>>

NextFallback == Generate

SpecFallback == InitFallback /\ [][NextFallback]_vars

(***************************************************************************)
(* A program that makes two execute calls in one process.                  *)
(***************************************************************************)
ConcMessages ==
    { SystemMsg("s1", TRUE, <<"rube">>), AssistantMsg(StringContent(<<"a">>)),
      UserMsg, ResultMsg("success", TRUE, "present") }

ConcOptions == { [NoOptions EXCEPT !.verbose = v] : v \in BOOLEAN }

InitConc ==
    /\ mcpFile = File(DocOneService)
    /\ envLocal = NoEnvFile
    /\ templates = {"twitter"}
    /\ ambient = EnvA
    /\ FreshProcess
    /\ run = 1
    /\ surfaced = {}
    /\ NoExpansionRun
    /\ NoFallbackRun

ConcExecute ==
    \E i \in InvIds, platform \in {"twitter", "myspace"}, options \in ConcOptions :
        ExecuteCall(i, platform, <<"hello">>, options)

ConcReceive ==
    \E i \in InvIds, message \in ConcMessages :
        inv[i].messageCount < MaxConcEvents /\ Receive(i, message)

ConcThrow == \E i \in InvIds : Throw(i)

ConcStreamEnd == \E i \in InvIds : StreamEnd(i)

NextConc == ConcExecute \/ ConcReceive \/ ConcThrow \/ ConcStreamEnd

SpecConc == InitConc /\ [][NextConc]_vars

(***************************************************************************)
(* A program that makes execute calls in one process while the descriptor  *)
(* document and the override file are edited or removed between the calls. *)
(***************************************************************************)
ReloadMcpFiles == { File(DocOneService), File(DocTwoServices) }

ReloadEnvFiles == { NoEnvFile, EnvFile(<<"A">> :> <<"w">>) }

InitReload ==
    /\ mcpFile \in ReloadMcpFiles
    /\ envLocal \in ReloadEnvFiles
    /\ templates = {"twitter"}
    /\ ambient = EnvA
    /\ FreshProcess
    /\ run = 1
    /\ surfaced = {}
    /\ NoExpansionRun
    /\ NoFallbackRun

\* The files are changed on disk; the process is not told.
ReloadFiles ==
    /\ exitCode = -1
    /\ \E doc \in ReloadMcpFiles, env \in ReloadEnvFiles :
         /\ <<doc, env>> # <<mcpFile, envLocal>>
         /\ mcpFile' = doc
         /\ envLocal' = env
    /\ UNCHANGED <<templates, ambient, procVars, xVars>>

ReloadExecute == \E i \in InvIds : ExecuteCall(i, "twitter", <<"hello">>, NoOptions)

ReloadReceive ==
    \E i \in InvIds, message \in CliMessages :
        inv[i].messageCount < MaxCliEvents /\ Receive(i, message)

NextReload == ReloadExecute \/ ReloadReceive \/ ConcThrow \/ ConcStreamEnd \/ ReloadFiles

SpecReload == InitReload /\ [][NextReload]_vars

(***************************************************************************)
(* A program that makes two execute calls in one process, over the         *)
(* descriptor documents and environments, the files staying as they are.   *)
(***************************************************************************)
NextTwice == ReloadExecute \/ ReloadReceive \/ ConcThrow \/ ConcStreamEnd

SpecTwice == InitConfig /\ [][NextTwice]_vars

(***************************************************************************)
(* Expansion alone: expandEnvironmentVariables applied to bounded          *)
(* templates and environment objects.                                      *)
(***************************************************************************)
Segs ==
    { PlaceholderA, PlaceholderB, <<"$", "{", "c", "}">>,
      <<"x">>, <<"$">>, <<"{">>, <<"}">>, <<"A">> }

Templates == { Flatten(ss) : ss \in SeqsUpTo(Segs, MaxSegs) }

EnvObjects ==
    { << >> }
    \cup { <<"A">> :> v : v \in { <<"v">>, << >>, PlaceholderB } }

InitExpand ==
    /\ xin \in [template : Templates, env : EnvObjects]
    /\ xout = [done |-> FALSE, res |-> NoExpansion]
    /\ NoFallbackRun
    /\ mcpFile = NoFile
    /\ envLocal = NoEnvFile
    /\ templates = {}
    /\ ambient = << >>
    /\ FreshProcess
    /\ run = 1
    /\ surfaced = {}

Expand ==
    /\ ~xout.done
    /\ xout' = [done |-> TRUE,
                res  |-> expandEnvironmentVariables(xin.template, xin.env)]
    /\ UNCHANGED <<xin, fbIn, fbOut, fileVars, procVars>>

NextExpand == Expand

SpecExpand == InitExpand /\ [][NextExpand]_vars

(***************************************************************************)
(* Properties of the command line tools.                                   *)
(*                                                                         *)
(* What the user asked for is read off the command line as the help texts  *)
(* describe it: "--resume <id>" names the session to resume, social.ts     *)
(* takes the platform as its first word, and the other words that are not  *)
(* options are the prompt.                                                 *)
(***************************************************************************)
Last(seq) == seq[Len(seq)]

IsOption(w) == w \in {"--resume", "--verbose", "--dry-run", "--preview", "--help", "-v", "-h"}

IsBlank(words) == \A k \in DOMAIN words : words[k] \in {"", " "}

ResumeAt(args) ==
    IF \E k \in DOMAIN args : args[k] = "--resume"
    THEN 1 + CHOOSE k \in DOMAIN args :
                 args[k] = "--resume" /\ \A j \in 1..(k - 1) : args[j] # "--resume"
    ELSE 0

\* The resume token the command line supplies, if any.
UserResume(args) ==
    LET k == ResumeAt(args)
    IN  IF k > 0 /\ k <= Len(args) /\ args[k] # ""
        THEN [def |-> TRUE, val |-> args[k]]
        ELSE [def |-> FALSE, val |-> ""]

\* The positions of the words that are neither options nor the resume token.
UserWordsAt(args) == { k \in DOMAIN args : ~IsOption(args[k]) /\ k # ResumeAt(args) }

\* The position of the platform word of social.ts, or 0.
UserPlatformAt(entry, args) ==
    IF entry = "social" /\ UserWordsAt(args) # {}
    THEN CHOOSE k \in UserWordsAt(args) : \A j \in UserWordsAt(args) : k <= j
    ELSE 0

UserPrompt(entry, args) ==
    LET at == SortedSeq(UserWordsAt(args) \ {UserPlatformAt(entry, args)})
    IN  [k \in DOMAIN at |-> args[at[k]]]

HelpRequested(args) == \E k \in DOMAIN args : args[k] \in {"--help", "-h"}

Count(out, kind) == Cardinality({ j \in DOMAIN out : out[j].k = kind })

\* C1: a stream whose last message is a Result that is not a success ends the
\* invocation as a failure: exit code 1, and no "operation completed" line.
C1_FailedResultFails ==
    ( /\ exitCode # -1
      /\ inv[1].events # << >>
      /\ Last(inv[1].events).type = "result"
      /\ Last(inv[1].events).subtype # "success" )
    => (exitCode = 1 /\ Count(inv[1].out, "completed") = 0)

\* C2: when execute is entered with a platform outside the supported set, the
\* process exits with code 1 and the backend is never called: no request, no
\* message consumed.
C2_UnsupportedPlatformRejected ==
    \A i \in InvIds :
        (inv[i].called /\ toLowerCase(inv[i].platform) \notin supportedPlatforms)
        => /\ exitCode = 1
           /\ requests = << >>
           /\ inv[i].events = << >>
           /\ inv[i].messageCount = 0
           /\ Count(inv[i].out, "error:unsupported") = 1

\* An unsupported platform whose template file exists, with a prompt and the
\* verbose flag, has been rejected.
C2_Witness ==
    /\ inv[1].called
    /\ inv[1].platform = "myspace"
    /\ "myspace" \in templates
    /\ inv[1].prompt = <<"hello">>
    /\ inv[1].options.verbose
    /\ exitCode = 1

C4_ResumeRoundTrip ==
    ( /\ inv[1].pc # "idle"
      /\ UserResume(inv[1].args).def
      /\ UserResume(inv[1].args).val \in surfaced
      /\ IsBlank(UserPrompt(inv[1].entry, inv[1].args))
      /\ ~HelpRequested(inv[1].args)
      /\ inv[1].entry = "social" =>
           /\ UserPlatformAt("social", inv[1].args) # 0
           /\ inv[1].args[UserPlatformAt("social", inv[1].args)] = "twitter" )
    => /\ Count(inv[1].out, "error:no-prompt") = 0
       /\ Len(requests) = 1
       /\ requests[1].request.resume = UserResume(inv[1].args)

\* The part of C4 that the code keeps: the round trip through twitter.ts.
ResumeRoundTripTwitter ==
    ( /\ inv[1].pc # "idle"
      /\ inv[1].entry = "twitter"
      /\ UserResume(inv[1].args).def
      /\ UserResume(inv[1].args).val \in surfaced
      /\ IsBlank(UserPrompt(inv[1].entry, inv[1].args))
      /\ ~HelpRequested(inv[1].args) )
    => /\ Count(inv[1].out, "error:no-prompt") = 0
       /\ Len(requests) = 1
       /\ requests[1].request.resume = UserResume(inv[1].args)
       /\ requests[1].request.prompt.prompt = << >>

\* The system messages of a stream that carry a session identifier.
WithSession(events) ==
    SelectSeq(events, LAMBDA m : m.type = "system" /\ m.session_id # "")

\* C5: the session identifier held is the one of the first system message
\* that carries one, whatever came later; every message is counted, and the
\* identifier is printed exactly once.
C5_SessionLatched ==
    LET c   == inv[1]
        ids == WithSession(c.events)
    IN  /\ c.sessionId.def = (ids # << >>)
        /\ ids # << >> =>
             /\ c.sessionId.val = ids[1].session_id
             /\ \A j \in DOMAIN c.out :
                  c.out[j].k = "session" => c.out[j].d[1] = ids[1].session_id
        /\ Count(c.out, "session") = IF ids = << >> THEN 0 ELSE 1
        /\ c.messageCount = Len(c.events)

\* Two system messages with different identifiers have been received, the
\* second after the first was latched.
C5_Witness ==
    LET ids == WithSession(inv[1].events)
    IN  /\ Len(ids) >= 2
        /\ ids[1].session_id = "s1"
        /\ ids[2].session_id = "s2"
        /\ inv[1].sessionId.val = "s1"
        /\ inv[1].messageCount = 3

\* C6: the counter equals the number of messages received so far, of
\* whatever type; when the stream is exhausted the count printed is the
\* length of the stream.
C6_CounterCountsEvery ==
    LET c == inv[1]
    IN  /\ c.messageCount = Len(c.events)
        /\ c.ending = "returned" =>
             /\ Count(c.out, "stats") = 1
             /\ \A j \in DOMAIN c.out :
                  c.out[j].k = "stats" => c.out[j].d = <<ToString(Len(c.events))>>

\* The stream [Init, AgentText, Unknown, Result(success)] is exhausted with a
\* count of 4.
C6_Witness ==
    /\ inv[1].ending = "returned"
    /\ Len(inv[1].events) = 4
    /\ inv[1].events[1].type = "system"
    /\ inv[1].events[2] = AssistantMsg(StringContent(<<" ">>))
    /\ inv[1].events[3].type = "heartbeat"
    /\ inv[1].events[4] = ResultMsg("success", TRUE, "present")
    /\ inv[1].messageCount = 4

\* The text JSON.parse is given: the document with its placeholders expanded
\* against the environment of the process.
ExpandedDocument ==
    expandEnvironmentVariables(mcpFile.text, loadEnvironment(ambient, envLocal).env).text

Occurrences(s) ==
    SortedSeq({ i \in 1..Len(s) :
                  /\ MatchAt(s, i)
                  /\ \A k \in 1..(i - 1) : ~(MatchAt(s, k) /\ MatchEnd(s, k) >= i) })

\* The text between the placeholder occurrences k-1 and k (k = Len(occ)+1:
\* the text after the last one).
Gap(s, occ, k) ==
    SubSeq(s,
           IF k = 1 THEN 1 ELSE MatchEnd(s, occ[k - 1]) + 1,
           IF k > Len(occ) THEN Len(s) ELSE occ[k] - 1)

RECURSIVE Stitch(_, _, _, _)
Stitch(s, occ, subs, k) ==
    IF k > Len(occ) THEN Gap(s, occ, k)
    ELSE Gap(s, occ, k) \o subs[k].text \o Stitch(s, occ, subs, k + 1)

\* The names the environment source resolves: the variables it defines.
Resolved(env, name) == name \in DOMAIN env

\* C8: of the N placeholder occurrences of a document, the M whose names the
\* environment source resolves are substituted with the resolved value, the
\* other N-M with the empty string and one warning each, and the text
\* outside the placeholders is unchanged.
C8_ExpansionCounts ==
    xout.done =>
        LET s   == xin.template
            env == xin.env
            occ == Occurrences(s)
            r   == xout.res
            N   == Len(occ)
            M   == Cardinality({ k \in 1..N : Resolved(env, MatchName(s, occ[k])) })
        IN  /\ Len(r.subs) = N
            /\ \A k \in 1..N :
                 LET name == MatchName(s, occ[k])
                 IN  /\ r.subs[k].name = name
                     /\ IF Resolved(env, name)
                        THEN r.subs[k].text = env[name] /\ ~r.subs[k].warned
                        ELSE r.subs[k].text = << >> /\ r.subs[k].warned
            /\ Len(r.warns) = N - M
            /\ r.text = Stitch(s, occ, r.subs, 1)

\* The part of C8 that the code keeps: every occurrence is replaced by what
\* the lookup env[NAME] yields (the empty string and a warning when that is
\* undefined), and the text outside the placeholders is unchanged.
ExpansionByLookup ==
    xout.done =>
        LET s   == xin.template
            occ == Occurrences(s)
            r   == xout.res
        IN  /\ Len(r.subs) = Len(occ)
            /\ \A k \in 1..Len(occ) :
                 LET v == Lookup(xin.env, MatchName(s, occ[k]))
                 IN  /\ r.subs[k].name = MatchName(s, occ[k])
                     /\ r.subs[k].text = v.val
                     /\ r.subs[k].warned = ~v.def
            /\ r.text = Stitch(s, occ, r.subs, 1)

\* C9 as stated: one warning per distinct unresolved placeholder name,
\* however often the name occurs.
C9_OneWarningPerName ==
    xout.done =>
        LET s   == xin.template
            occ == Occurrences(s)
        IN  Len(xout.res.warns) =
              Cardinality({ n \in { MatchName(s, occ[k]) : k \in 1..Len(occ) } :
                              ~Lookup(xin.env, n).def })

\* C9 as amended: one warning per occurrence of a placeholder whose lookup
\* is undefined, in the order of the occurrences; an unresolved placeholder
\* does not stop the expansion: every occurrence is replaced, the ones the
\* lookup defines by their value.
C9_OneWarningPerOccurrence ==
    xout.done =>
        LET s     == xin.template
            occ   == Occurrences(s)
            r     == xout.res
            undef == SelectSeq(occ, LAMBDA i : ~Lookup(xin.env, MatchName(s, i)).def)
        IN  /\ Len(r.warns) = Len(undef)
            /\ \A k \in 1..Len(undef) : r.warns[k].name = MatchName(s, undef[k])
            /\ Len(r.subs) = Len(occ)
            /\ \A k \in 1..Len(occ) :
                 LET v == Lookup(xin.env, MatchName(s, occ[k]))
                 IN  v.def => r.subs[k].text = v.val /\ ~r.subs[k].warned

\* A name occurs twice unresolved and is warned about twice, and a resolved
\* placeholder after it is still expanded.
C9_Witness ==
    /\ xout.done
    /\ xin.template = <<"$", "{", "B", "}", "$", "{", "B", "}", "$", "{", "A", "}">>
    /\ <<"A">> \in DOMAIN xin.env
    /\ Len(xout.res.warns) = 2
    /\ xout.res.text = xin.env[<<"A">>]
    /\ xout.res.text # << >>

(***************************************************************************)
(* Properties of concurrent invocations.                                   *)
(***************************************************************************)
\* The lines invocation c writes for the messages it has received when it
\* is the only invocation of the process: the logger then has the verbose
\* option that c gave it.
RECURSIVE AloneFrom(_, _, _)
AloneFrom(c, k, state) ==
    IF k > Len(c.events) THEN << >>
    ELSE LET r == executeLoop(state, c.events[k], c.platform, c.options, c.options.verbose)
         IN  r.out \o AloneFrom(c, k + 1, r)

Alone(c) ==
    LET start == executeStart(c.platform, c.prompt, c.options, mcpFile, envLocal,
                              templates, ambient)
    IN  start.out
        \o AloneFrom(c, 1, [messageCount |-> 0, sessionId |-> NoSession])
        \o (IF c.ending = "returned" THEN executeStats(Len(c.events)) ELSE << >>)
        \o (IF c.ending = "transport-error"
            THEN executeCatch(c.platform, c.options, c.options.verbose) ELSE << >>)

\* C10: whatever the interleaving of two execute calls, each writes what it
\* would have written alone.
C10_Independent ==
    \A i \in InvIds : inv[i].called => inv[i].out = Alone(inv[i])

(***************************************************************************)
(* Properties of failures while the stream is consumed.                    *)
(***************************************************************************)
\* C11: once the backend has raised while the stream was being consumed, the
\* invocation has ended as a failure (the "Execution failed" report, no
\* statistics, no "operation completed" line, exit code 1), and no further
\* message is consumed: nothing of the invocation changes any more.
C11_TransportErrorAborts ==
    /\ [](inv[1].ending = "transport-error"
           => /\ exitCode = 1
              /\ inv[1].pc = "exited"
              /\ Count(inv[1].out, "error:execution-failed") = 1
              /\ Count(inv[1].out, "stats") = 0
              /\ Count(inv[1].out, "completed") = 0
              /\ Last(inv[1].out).k = "troubleshooting")
    /\ [][inv[1].ending = "transport-error" => inv'[1] = inv[1]]_vars

\* The backend has raised between two messages: two were consumed, then the
\* run ended with exit code 1.
C11_Witness ==
    /\ inv[1].ending = "transport-error"
    /\ Len(inv[1].events) = 2
    /\ inv[1].messageCount = 2
    /\ exitCode = 1

\* The types processMessage has a case for.
KnownTypes == {"system", "assistant", "user", "result"}

\* C12: a message of a known type whose payload is missing or malformed never
\* aborts the run: a process that ends with exit code 1 after consuming
\* messages does so only because the backend raised.
C12_ClassificationDegrades ==
    (inv[1].events # << >> /\ exitCode = 1) => inv[1].ending = "transport-error"

(***************************************************************************)
(* Properties of the validation made by execute.                           *)
(***************************************************************************)
\* The lines that loading the configuration can write.
ConfigurationLines ==
    {"env-local", "warning:env", "warning:no-mcp-json", "error:mcp-json", "loaded-servers"}

\* C13: when execute is entered with a supported platform that has no
\* template file, the process ends with exit code 1 with the template-missing
\* error, before the configuration is loaded and before any session is
\* dispatched; and no invocation writes both the template-missing and the
\* unsupported-platform error.
C13_MissingTemplateRejected ==
    \A i \in InvIds :
        /\ (inv[i].called /\ toLowerCase(inv[i].platform) \in supportedPlatforms
                          /\ inv[i].platform \notin templates)
           => /\ exitCode = 1
              /\ inv[i].pc = "exited"
              /\ requests = << >>
              /\ inv[i].events = << >>
              /\ Count(inv[i].out, "error:no-template") = 1
              /\ Kinds(inv[i].out) \cap ConfigurationLines = {}
              /\ processEnv = ambient
        /\ ~(Count(inv[i].out, "error:no-template") > 0
             /\ Count(inv[i].out, "error:unsupported") > 0)

\* twitter.ts has been run where only another platform has a template file.
C13_Witness ==
    /\ inv[1].entry = "twitter"
    /\ inv[1].args = <<"hello">>
    /\ "twitter" \notin templates
    /\ inv[1].how = "no-template"
    /\ Last(inv[1].out).k = "error:no-template"
    /\ exitCode = 1

(***************************************************************************)
(* Properties of the handling of one message.                              *)
(***************************************************************************)
\* C14: the step that consumes a message whose type is none of system,
\* assistant, user, result adds one to the counter, leaves the session
\* identifier and the course of the run as they were, does not raise, and
\* writes one line when the run is verbose and nothing otherwise.
C14_UnknownCounted ==
    [][ ( /\ Len(inv'[1].events) = Len(inv[1].events) + 1
          /\ Last(inv'[1].events).type \notin KnownTypes )
        => /\ inv'[1].messageCount = inv[1].messageCount + 1
           /\ inv'[1].sessionId = inv[1].sessionId
           /\ inv'[1].pc = "streaming"
           /\ inv'[1].ending = inv[1].ending
           /\ exitCode' = -1
           /\ inv'[1].out =
                inv[1].out \o (IF inv[1].options.verbose
                               THEN <<Line("debug:unknown",
                                           <<ToString(inv[1].messageCount + 1),
                                             Last(inv'[1].events).type>>)>>
                               ELSE << >>) ]_vars

\* A verbose run has consumed a heartbeat message after a system message and
\* reported it; the session identifier is still the one latched.
C14_Witness ==
    /\ inv[1].options.verbose
    /\ Len(inv[1].events) = 2
    /\ inv[1].events[1] = SystemMsg("s1", TRUE, <<"rube">>)
    /\ inv[1].events[2] = HeartbeatMsg
    /\ inv[1].messageCount = 2
    /\ inv[1].sessionId = [def |-> TRUE, val |-> "s1"]
    /\ Last(inv[1].out) = Line("debug:unknown", <<"2", "heartbeat">>)
    /\ exitCode = -1

\* The text an assistant message carries, stated on its sub-parts: the
\* texts of the sub-parts of type text, in the order of the list.
PartsText(content) ==
    LET parts == SelectSeq(content.blocks, LAMBDA b : b.type = "text")
    IN  Flatten([k \in DOMAIN parts |-> parts[k].text])

\* The lines that a step has added to the output of the invocation.
Added(before, after) == SubSeq(after, Len(before) + 1, Len(after))

\* C15: the step that consumes an assistant message whose content is a list
\* of sub-parts counts it and, when the concatenation of its text sub-parts
\* is not blank, writes that concatenation as one text; when it is blank
\* the step writes nothing at all.
C15_SubPartsConcatenated ==
    [][ ( /\ Len(inv'[1].events) = Len(inv[1].events) + 1
          /\ Last(inv'[1].events).type = "assistant"
          /\ Last(inv'[1].events).hasMessage
          /\ Last(inv'[1].events).content.kind = "blocks" )
        => LET text  == PartsText(Last(inv'[1].events).content)
               added == Added(inv[1].out, inv'[1].out)
           IN  /\ inv'[1].messageCount = inv[1].messageCount + 1
               /\ SubSeq(inv'[1].out, 1, Len(inv[1].out)) = inv[1].out
               /\ IF \E k \in DOMAIN text : text[k] # " "
                  THEN SelectSeq(added, LAMBDA l : l.k = "text") = <<Line("text", text)>>
                  ELSE added = << >> ]_vars

\* The sub-parts "a", a tool use, "b" have been written as the one text "ab",
\* and a list of blank sub-parts after it has been counted without output.
C15_Witness ==
    /\ Len(inv[1].events) = 2
    /\ inv[1].events[1] =
         AssistantMsg(BlockContent(<<TextBlock(<<"a">>), ToolBlock, TextBlock(<<"b">>)>>))
    /\ inv[1].events[2] = AssistantMsg(BlockContent(<<TextBlock(<<" ">>), TextBlock(<< >>)>>))
    /\ Last(inv[1].out) = Line("text", <<"a", "b">>)
    /\ inv[1].messageCount = 2
    /\ ~inv[1].options.verbose

\* The text of an assistant message, whether it came as one value or as
\* sub-parts.
MessageText(m) ==
    IF m.content.kind = "blocks" THEN PartsText(m.content) ELSE m.content.chars

\* The positions, in the stream received, of the assistant messages that
\* have a text to show.
Shown(events) ==
    SortedSeq({ k \in DOMAIN events :
                  /\ events[k].type = "assistant"
                  /\ \E j \in DOMAIN MessageText(events[k]) :
                        MessageText(events[k])[j] # " " })

\* The lines of one kind, in the order written.
LinesOf(out, kind) == SelectSeq(out, LAMBDA l : l.k = kind)

\* C16: the messages are handled in arrival order, one at a time: a step
\* only adds lines after those already written, the texts written are the
\* texts of the messages received in the order of the stream, and in a
\* verbose run each text is announced with the position of its message.
C16_ArrivalOrder ==
    /\ [] LET c     == inv[1]
              shown == Shown(c.events)
          IN  /\ LinesOf(c.out, "text") =
                   [k \in DOMAIN shown |-> Line("text", MessageText(c.events[shown[k]]))]
              /\ c.options.verbose =>
                   LinesOf(c.out, "debug:assistant") =
                     [k \in DOMAIN shown |-> Line("debug:assistant", <<ToString(shown[k])>>)]
              /\ c.messageCount = Len(c.events)
    /\ [][ /\ Len(inv'[1].out) >= Len(inv[1].out)
           /\ SubSeq(inv'[1].out, 1, Len(inv[1].out)) = inv[1].out
           /\ Len(inv'[1].events) <= Len(inv[1].events) + 1 ]_vars

\* The texts "a" and "b" arrived in that order and were written in that
\* order.
C16_Witness ==
    /\ inv[1].events = <<AssistantMsg(StringContent(<<"a">>)),
                         AssistantMsg(StringContent(<<"b">>))>>
    /\ LinesOf(inv[1].out, "text") = <<Line("text", <<"a">>), Line("text", <<"b">>)>>
    /\ inv[1].options.verbose

(***************************************************************************)
(* Properties of the requests made to the backend.                         *)
(***************************************************************************)
\* The requests that invocation i has made.
RequestsBy(i) == SelectSeq(requests, LAMBDA r : r.by = i)

C18_ResumeVerbatim ==
    \A k \in DOMAIN requests :
        LET c     == inv[requests[k].by]
            given == c.options.resume
            sent  == requests[k].request.resume
        IN  /\ sent.def = (given.def /\ given.val # "")
            /\ sent.def => sent.val = given.val
            /\ ~sent.def => sent.val = ""
            /\ c.entry = "twitter" => sent = UserResume(c.args)

\* twitter.ts hello --resume s1 has dispatched a request that resumes s1.
C18_Witness ==
    /\ inv[1].entry = "twitter"
    /\ inv[1].args = <<"hello", "--resume", "s1">>
    /\ Len(requests) = 1
    /\ requests[1].request.resume = [def |-> TRUE, val |-> "s1"]
    /\ requests[1].request.prompt.prompt = <<"hello">>

\* C19: social.ts run as "<platform> <prompt> --resume <session-id>" resumes
\* that session: one request is dispatched for the platform, with the
\* session identifier as its resume token and the prompt words, without the
\* identifier, as its prompt.
C19_SocialResumes ==
    LET args == inv[1].args
        n    == Len(args)
    IN  ( /\ inv[1].pc # "idle"
          /\ inv[1].entry = "social"
          /\ n >= 4
          /\ args[1] = "twitter"
          /\ "twitter" \in templates
          /\ \A k \in 2..(n - 2) : ~IsOption(args[k]) /\ args[k] # "twitter"
          /\ args[n - 1] = "--resume"
          /\ ~IsOption(args[n])
          /\ args[n] # "twitter" )
        => /\ Len(requests) = 1
           /\ inv[1].platform = "twitter"
           /\ requests[1].request.resume = [def |-> TRUE, val |-> args[n]]
           /\ requests[1].request.prompt.prompt = SubSeq(args, 2, n - 2)

\* C20: the descriptor set of a request is the one that the descriptor
\* document, the override file and the ambient environment, as they are when
\* the call is made, determine: the one a process that has made no call
\* before would load.
C20_LoadedFresh ==
    [][ Len(requests') = Len(requests) + 1
        => Last(requests').request.mcpServers
             = loadMCPServers(mcpFile, envLocal, ambient).servers ]_vars

(***************************************************************************)
(* Properties of the configuration that a request carries.                 *)
(***************************************************************************)
\* The value of field "k" of service svc in a descriptor set.
FieldOf(servers, svc) == GetProp(GetProp(servers, svc).val, <<"k">>).val.chars

\* The value that the precedence rule gives a variable: the one of the
\* override file when the file defines it, else the ambient one, else none.
Precedence(name) ==
    IF envLocal.exists /\ name \in DOMAIN envLocal.vars THEN envLocal.vars[name]
    ELSE IF name \in DOMAIN ambient THEN ambient[name]
    ELSE << >>

\* C21: in the descriptor set that a request carries, a placeholder has the
\* value that .env.local gives its variable when the file defines it, even if
\* the ambient environment defines it too, and the ambient value when only
\* the ambient environment defines it.
C21_OverrideWins ==
    (Len(requests) = 1 /\ inv[1].how = "loaded")
    => LET servers == requests[1].request.mcpServers
       IN  /\ mcpFile = File(DocOneService) => FieldOf(servers, <<"s">>) = Precedence(<<"A">>)
           /\ mcpFile = File(DocTwoServices) =>
                /\ FieldOf(servers, <<"s">>) = Precedence(<<"B">>)
                /\ FieldOf(servers, <<"s", "2">>) = Precedence(<<"A">>)

\* A is v in the ambient environment and w in .env.local, and the request
\* carries w; B, which only the ambient environment could define, is unset.
C21_Witness ==
    /\ ambient = EnvA
    /\ envLocal = EnvFile(<<"A">> :> <<"w">>)
    /\ mcpFile = File(DocTwoServices)
    /\ Len(requests) = 1
    /\ FieldOf(requests[1].request.mcpServers, <<"s", "2">>) = <<"w">>

\* The lines that loading the configuration wrote for an invocation.
ConfigurationOut(out) == SelectSeq(out, LAMBDA l : l.k \in ConfigurationLines)

\* C22: two calls that resolve the same descriptor document against the same
\* override file and ambient environment obtain the same descriptor set and
\* the same warnings, and the first leaves the environment of the process as
\* the second leaves it.
C22_SameTwice ==
    /\ [] ( Len(requests) = 2
            => /\ requests[1].request.mcpServers = requests[2].request.mcpServers
               /\ ConfigurationOut(inv[1].out) = ConfigurationOut(inv[2].out)
               /\ inv[1].how = inv[2].how )
    /\ [][ Len(requests) >= 1 => processEnv' = processEnv ]_vars

\* The document with two placeholders has been resolved twice, with A taken
\* from .env.local and a warning for B each time.
C22_Witness ==
    /\ Len(requests) = 2
    /\ mcpFile = File(DocTwoServices)
    /\ envLocal = EnvFile(<<"A">> :> <<"w">>)
    /\ ambient = EnvA
    /\ Count(inv[1].out, "warning:env") = 1
    /\ Count(inv[2].out, "warning:env") = 1
    /\ FieldOf(requests[2].request.mcpServers, <<"s", "2">>) = <<"w">>

\* C23: when the descriptor document is well-formed, whatever the values of
\* the environment, the descriptor set that the request carries is the
\* document's: loading did not fail, and the set has the services of the
\* document, each with the fields it has in the document.
C23_ExpansionKeepsStructure ==
    (Len(requests) = 1 /\ mcpFile.exists /\ JSONparse(mcpFile.text).ok)
    => LET doc     == GetProp(JSONparse(mcpFile.text).val, MCP_SERVERS)
           servers == requests[1].request.mcpServers
       IN  /\ inv[1].how # "malformed"
           /\ Truthy(doc) =>
                /\ ObjectKeys(servers) = ObjectKeys(doc.val)
                /\ \A svc \in ObjectKeys(doc.val) :
                     ObjectKeys(GetProp(servers, svc).val)
                       = ObjectKeys(GetProp(doc.val, svc).val)

\* C24: when execute is entered and the descriptor document is absent, the
\* load gives one warning and the empty descriptor set, without reading the
\* environment, and the invocation goes on: its session is dispatched with
\* no service configured.
C24_AbsentDegrades ==
    (inv[1].called /\ inv[1].platform \in templates /\ ~mcpFile.exists)
    => /\ inv[1].how = "absent"
       /\ Len(requests) = 1
       /\ requests[1].request.mcpServers = JObj(<< >>)
       /\ ConfigurationOut(inv[1].out) = <<Line("warning:no-mcp-json", << >>)>>
       /\ processEnv = ambient
       /\ inv[1].ending # "validation"

\* Without a descriptor document the run has been dispatched and has come
\* to the end of its stream.
C24_Witness ==
    /\ mcpFile = NoFile
    /\ envLocal.exists
    /\ Len(requests) = 1
    /\ requests[1].request.mcpServers = JObj(<< >>)
    /\ inv[1].ending = "returned"
    /\ exitCode = 0

(***************************************************************************)
(* Properties of the report of a failure.                                  *)
(***************************************************************************)
\* C25: an invocation that ended on an exception of the backend has written
\* the full error detail exactly when it was called with the verbose
\* option; without the option it has written the error message and the
\* troubleshooting text only.
C25_DetailIffVerbose ==
    \A i \in InvIds :
        inv[i].ending = "transport-error"
        => /\ Count(inv[i].out, "error:execution-failed") = 1
           /\ Count(inv[i].out, "troubleshooting") = 1
           /\ Count(inv[i].out, "debug:error-details")
                = IF inv[i].options.verbose THEN 1 ELSE 0

\* The part of C25 that holds of every process: without the verbose option
\* the detail is never written; and a process that makes one call writes it
\* when the option is given.
DetailOnlyIfVerbose ==
    \A i \in InvIds :
        inv[i].ending = "transport-error"
        => /\ ~inv[i].options.verbose => Count(inv[i].out, "debug:error-details") = 0
           /\ (inv[i].options.verbose /\ ~inv[3 - i].called)
                => Count(inv[i].out, "debug:error-details") = 1

(***************************************************************************)
(* Properties of the session's life cycle.                                 *)
(***************************************************************************)
\* The request of invocation i is out and no message has been counted.
Requesting(i) == inv[i].pc = "streaming" /\ inv[i].messageCount = 0

\* A message of the stream of invocation i has been counted.
Streaming(i) == inv[i].messageCount >= 1

\* C26: an execute call with a supported platform, a template document that
\* exists under the platform's name and a non-empty prompt dispatches its
\* request; and the step in which the first message of the stream arrives
\* takes the invocation from Requesting to Streaming.
C26_ReachesStreaming ==
    /\ [](\A i \in InvIds :
            (/\ inv[i].called
             /\ validatePlatform(inv[i].platform)
             /\ existsSync(inv[i].platform, templates)
             /\ ~TrimEmpty(inv[i].prompt))
            => /\ Len(RequestsBy(i)) = 1
               /\ inv[i].ending # "validation"
               /\ Count(inv[i].out, "initializing") = 1)
    /\ [][\A i \in InvIds :
            (Requesting(i) /\ inv'[i].events # inv[i].events)
            => /\ Len(inv'[i].events) = 1
               /\ Streaming(i)']_vars

\* A request for a platform other than twitter has received its first
\* message and goes on streaming.
C26_Witness ==
    /\ inv[1].platform = "reddit"
    /\ Len(requests) = 1
    /\ Len(inv[1].events) = 1
    /\ Streaming(1)
    /\ inv[1].pc = "streaming"

(***************************************************************************)
(* Properties of the platform identifier.                                  *)
(***************************************************************************)
\* C29: an identifier that validatePlatform accepts, and whose platform has
\* its template document under the lower-case name, passes the template
\* check as well: the call is not rejected as "template not found" and its
\* request is dispatched.
C29_LookupAgrees ==
    \A i \in InvIds :
        (/\ inv[i].called
         /\ validatePlatform(inv[i].platform)
         /\ toLowerCase(inv[i].platform) \in templates)
        => /\ inv[i].how # "no-template"
           /\ Count(inv[i].out, "error:no-template") = 0
           /\ Len(RequestsBy(i)) = 1

(***************************************************************************)
(* Properties of the outcome of an invocation.                             *)
(***************************************************************************)
\* The stream of invocation i has carried a Result message of this subtype.
ResultReceived(i, subtype) ==
    \E k \in DOMAIN inv[i].events :
        inv[i].events[k].type = "result" /\ inv[i].events[k].subtype = subtype

\* C27: an invocation is reported as a success (execute has returned, the
\* "operation completed" line is written and the exit code is 0) only if
\* its stream carried a Result message with the success subtype.
C27_SuccessNeedsResult ==
    (/\ inv[1].ending = "returned"
     /\ Count(inv[1].out, "completed") = 1
     /\ exitCode = 0)
    => ResultReceived(1, "success")

\* C28: once a Result message with the success subtype has been handled,
\* nothing that follows changes the outcome: the process does not end with
\* exit code 1.
C28_OutcomeStable ==
    (\E k \in DOMAIN inv[1].events :
        /\ inv[1].events[k].type = "result"
        /\ inv[1].events[k].subtype = "success"
        \* its handling has come to its end without an exception
        /\ (k < Len(inv[1].events) \/ inv[1].ending # "type-error"))
    => exitCode # 1

(***************************************************************************)
(* Properties of generateFallbackVersions.                                 *)
(***************************************************************************)
\* What a configuration holds: its content, and its tweets read through
\* the heap.
ValueOf(arrays, config) ==
    [content |-> IF config.hasContent THEN <<config.content>> ELSE << >>,
     tweets  |-> IF config.hasTweets THEN <<arrays[config.tweets]>> ELSE << >>]

\* The fallback of one scenario, made from the configuration as it was
\* before the call.
DerivedFrom(arrays, config, scenario) ==
    LET turn == forEachTurn(arrays, config, scenario)
    IN  ValueOf(turn.arrays, turn.fallback)

\* C30: after generateFallbackVersions the configuration given holds what
\* it held before the call, each tweet of a thread included, and each
\* fallback returned is the one its scenario makes from that configuration.
C30_InputUnchanged ==
    fbOut.done =>
        /\ ValueOf(fbOut.arrays, fbIn.originalConfig)
             = ValueOf(fbIn.arrays, fbIn.originalConfig)
        /\ Len(fbOut.fallbacks) = Len(fbIn.scenarios)
        /\ \A k \in DOMAIN fbOut.fallbacks :
              ValueOf(fbOut.arrays, fbOut.fallbacks[k])
                = DerivedFrom(fbIn.arrays, fbIn.originalConfig, fbIn.scenarios[k])

\* The part of C30 that holds: a post, and a thread without the scenario
\* 'different-hook' or without tweets, is left as it was.
PostsAndOtherScenariosUnchanged ==
    (/\ fbOut.done
     /\ \/ fbIn.originalConfig.hasContent
        \/ "different-hook" \notin Range(fbIn.scenarios)
        \/ fbIn.arrays[fbIn.originalConfig.tweets] = << >>)
    => C30_InputUnchanged

=============================================================================
